---- MODULE Spec2Model ----
(***************************************************************************)
(* Model of the three standalone object-oriented teaching programs:        *)
(*   car.cpp   (class Car, main)                                           *)
(*   shape.cpp (Shape, Circle, Rectangle, printArea, main)                 *)
(*   cell.cpp  (class Cell, main)                                          *)
(*                                                                         *)
(* A run executes one program.  `mode` selects either the program's own    *)
(* main ("car_main", "shape_main", "cell_main") or a client that builds    *)
(* the program's objects from arbitrary arguments and then calls their     *)
(* public operations in any order ("car_any", "shape_any", "cell_any").    *)
(*                                                                         *)
(* A std::string is a sequence of one-character strings; standard output   *)
(* is one such sequence.  A double is a decimal [m, e] standing for        *)
(* m * 10^(-e); products are exact on this representation.                 *)
(***************************************************************************)
EXTENDS Integers, Sequences, FiniteSets, TLC

VARIABLES mode, pc, stdout, exit, args, car, circle, rectangle, cell, calls, ret

vars == <<mode, pc, stdout, exit, args, car, circle, rectangle, cell, calls, ret>>

\* Largest number of operations a client invokes on the objects it built.
MaxCalls == 4

Modes == {"car_main", "car_any", "shape_main", "shape_any", "cell_main", "cell_any"}

\* An object or argument list that does not exist (yet).
None == [kind |-> "none"]

----------------------------------------------------------------------------
\* String literals of the sources, as character sequences.

S_Make == <<"M", "a", "k", "e", ":", " ">>
S_Model == <<",", " ", "M", "o", "d", "e", "l", ":", " ">>
S_Year == <<",", " ", "Y", "e", "a", "r", ":", " ">>
S_Area == <<"A", "r", "e", "a", ":", " ">>
S_Mitosis == <<"D", "o", "i", "n", "g", " ", "c", "e", "l", "l", " ", "d", "i", "v", "i", "s", "i", "o", "n">>
Toyota == <<"T", "o", "y", "o", "t", "a">>
Corolla == <<"C", "o", "r", "o", "l", "l", "a">>
ATCG == <<"A", "T", "C", "G">>
Hemoglobin == <<"H", "e", "m", "o", "g", "l", "o", "b", "i", "n">>
Insulin == <<"I", "n", "s", "u", "l", "i", "n">>

\* std::endl writes the line terminator (and flushes).
endl == <<"\n">>

----------------------------------------------------------------------------
\* Formatted output of numbers (operator<< of std::ostream).

Digit(d) == <<"0", "1", "2", "3", "4", "5", "6", "7", "8", "9">>[d + 1]

RECURSIVE NatToStr(_)
NatToStr(n) == IF n < 10 THEN <<Digit(n)>>
               ELSE Append(NatToStr(n \div 10), Digit(n % 10))

\* operator<<(int): decimal digits, a leading '-' for a negative value.
IntToStr(n) == IF n < 0 THEN <<"-">> \o NatToStr(-n) ELSE NatToStr(n)

----------------------------------------------------------------------------
\* car.cpp

\* Car::Car(make, model, year) : make(make), model(model), year(year)
Car(make, model, year) == [kind |-> "Car", make |-> make, model |-> model, year |-> year]

\* displayInfoText with the make and the model exchanged.
displayInfoText_swapped(self) ==
    S_Make \o self.model \o S_Model \o self.make \o S_Year \o IntToStr(self.year) \o endl

\* The text Car::displayInfo streams to std::cout for the object self.
displayInfoText(self) ==
    S_Make \o self.make \o S_Model \o self.model \o S_Year \o IntToStr(self.year) \o endl

\* displayInfo that also advances the year of the object.
displayInfo_mutating(self) ==
    /\ stdout' = stdout \o displayInfoText(self)
    /\ car' = [self EXCEPT !.year = self.year + 1]

\* void Car::displayInfo() const
displayInfo(self) ==
    /\ stdout' = stdout \o displayInfoText(self)
    /\ car' = self

\* Arguments the car client passes to the constructor.
EmptyStr == <<>>
Makes == {Toyota, <<"F", "o", "r", "d">>, EmptyStr}
Models == {Corolla, <<"T">>}
Years == {2020, 1999, 0, -5}

\* car.cpp main, line 25: Car myCar("Toyota", "Corolla", 2020);
CarMain_L25 ==
    /\ mode = "car_main" /\ pc = "start"
    /\ car' = Car(Toyota, Corolla, 2020)
    /\ args' = [kind |-> "Car", make |-> Toyota, model |-> Corolla, year |-> 2020]
    /\ pc' = "L26"
    /\ UNCHANGED <<mode, stdout, exit, circle, rectangle, cell, calls, ret>>

\* car.cpp main, line 26: myCar.displayInfo();
CarMain_L26 ==
    /\ mode = "car_main" /\ pc = "L26"
    /\ displayInfo(car)
    /\ calls' = Append(calls, "displayInfo")
    /\ pc' = "L27"
    /\ UNCHANGED <<mode, exit, args, circle, rectangle, cell, ret>>

\* car.cpp main, line 27: return 0;
CarMain_L27 ==
    /\ mode = "car_main" /\ pc = "L27"
    /\ exit' = <<0>>
    /\ pc' = "done"
    /\ UNCHANGED <<mode, stdout, args, car, circle, rectangle, cell, calls, ret>>

\* A client constructs a Car from arbitrary arguments.
CarClient_New ==
    /\ mode = "car_any" /\ pc = "start"
    /\ \E mk \in Makes, md \in Models, y \in Years :
          /\ car' = Car(mk, md, y)
          /\ args' = [kind |-> "Car", make |-> mk, model |-> md, year |-> y]
    /\ pc' = "live"
    /\ UNCHANGED <<mode, stdout, exit, circle, rectangle, cell, calls, ret>>

\* A client calls displayInfo on its Car.
CarClient_displayInfo ==
    /\ mode = "car_any" /\ pc = "live" /\ Len(calls) < MaxCalls
    /\ displayInfo(car)
    /\ calls' = Append(calls, "displayInfo")
    /\ UNCHANGED <<mode, pc, exit, args, circle, rectangle, cell, ret>>

----------------------------------------------------------------------------
\* Doubles.  D(m, e) is the value m * 10^(-e).  Every value the programs
\* compute from the arguments below has at most ten significant decimal
\* digits and is carried exactly.

D(m, e) == [m |-> m, e |-> e]

RECURSIVE Pow10(_)
Pow10(k) == IF k = 0 THEN 1 ELSE 10 * Pow10(k - 1)

\* operator* on doubles
Mul(a, b) == D(a.m * b.m, a.e + b.e)

\* M_PI of <cmath>, 3.14159265358979323846, to eight significant digits.
M_PI == D(31415927, 7)

Abs(n) == IF n < 0 THEN -n ELSE n

RECURSIVE NumDigits(_)
NumDigits(n) == IF n < 10 THEN 1 ELSE 1 + NumDigits(n \div 10)

\* Default precision of an output stream (std::ios_base::precision() is 6).
Precision == 6

\* Round the natural number a to at most Precision significant digits,
\* ties to even.  The result is <<q, x>>: the digits q and the decimal
\* exponent x of the leading digit, for a value a * 10^(-e).
RoundSig(a, e) ==
    LET nd == NumDigits(a)
        x  == nd - 1 - e
    IN  IF nd <= Precision THEN <<a, x>>
        ELSE LET k    == nd - Precision
                 q    == a \div Pow10(k)
                 r    == a % Pow10(k)
                 half == 5 * Pow10(k - 1)
                 up   == r > half \/ (r = half /\ q % 2 = 1)
                 q2   == IF up THEN q + 1 ELSE q
             IN  IF q2 = Pow10(Precision) THEN <<Pow10(Precision - 1), x + 1>>
                 ELSE <<q2, x>>

\* Remove trailing zeros from the digits q (the %g conversion drops them).
RECURSIVE StripZeros(_)
StripZeros(q) == IF q >= 10 /\ q % 10 = 0 THEN StripZeros(q \div 10) ELSE q

RECURSIVE Zeros(_)
Zeros(k) == IF k <= 0 THEN <<>> ELSE <<"0">> \o Zeros(k - 1)

\* The exponent field of the scientific style: sign and at least two digits.
ExpToStr(x) ==
    (IF x < 0 THEN <<"-">> ELSE <<"+">>)
        \o (IF Abs(x) < 10 THEN <<"0">> ELSE <<>>) \o NatToStr(Abs(x))

\* operator<<(double) with the stream defaults: the %g conversion with
\* precision 6.  Scientific style when the decimal exponent is below -4 or
\* at least the precision, fixed style otherwise; no trailing zeros and no
\* trailing decimal point.
DoubleToStr(v) ==
    IF v.m = 0 THEN <<"0">>
    ELSE LET rs   == RoundSig(Abs(v.m), v.e)
             x    == rs[2]
             q    == StripZeros(rs[1])
             ds   == NatToStr(q)
             s    == Len(ds)
             sign == IF v.m < 0 THEN <<"-">> ELSE <<>>
             body ==
                 IF x < -4 \/ x >= Precision
                 THEN <<ds[1]>>
                        \o (IF s > 1 THEN <<".">> \o SubSeq(ds, 2, s) ELSE <<>>)
                        \o <<"e">> \o ExpToStr(x)
                 ELSE IF x >= s - 1 THEN ds \o Zeros(x - s + 1)
                 ELSE IF x >= 0 THEN SubSeq(ds, 1, x + 1) \o <<".">> \o SubSeq(ds, x + 2, s)
                 ELSE <<"0", ".">> \o Zeros(-x - 1) \o ds
         IN  sign \o body

----------------------------------------------------------------------------
\* shape.cpp

\* Circle::Circle(double r) : radius(r).  kind is the dynamic type of the
\* object (its virtual table).
Circle(r) == [kind |-> "Circle", radius |-> r]

\* Rectangle::Rectangle(double w, double h) : width(w), height(h)
Rectangle(w, h) == [kind |-> "Rectangle", width |-> w, height |-> h]

\* Circle::area computing the circumference 2 * pi * r instead.
Circle_area_circumference(self) == Mul(Mul(M_PI, D(2, 0)), self.radius)

\* double Circle::area() const: M_PI * radius * radius, left to right.
Circle_area(self) == Mul(Mul(M_PI, self.radius), self.radius)

\* Rectangle::area multiplying the width by itself.
Rectangle_area_square(self) == Mul(self.width, self.width)

\* double Rectangle::area() const
Rectangle_area(self) == Mul(self.width, self.height)

\* A statically bound call: Circle's formula runs on whatever object is
\* passed, reading its first double member as the radius.
area_static(shape) ==
    IF shape.kind = "Circle" THEN Circle_area(shape)
    ELSE Mul(Mul(M_PI, shape.width), shape.width)

\* The virtual call shape.area() through a const Shape&: the override of
\* the dynamic type of the object runs.
area(shape) == IF shape.kind = "Circle" THEN Circle_area(shape) ELSE Rectangle_area(shape)

\* void printArea(const Shape& shape)
printArea(shape) == stdout' = stdout \o S_Area \o DoubleToStr(area(shape)) \o endl

\* Arguments the shape client passes to the constructors.
Radii == {D(5, 0), D(1, 0), D(5, 1), D(0, 0), D(-2, 0), D(8, 0)}
Sides == {D(10, 0), D(2, 0), D(25, 1), D(1000, 0), D(-3, 0)}

\* The object a client refers to by name.
Obj(name) == IF name = "circle" THEN circle ELSE rectangle

\* shape.cpp main, line 49: Circle circle(5.0);
ShapeMain_L49 ==
    /\ mode = "shape_main" /\ pc = "start"
    /\ circle' = Circle(D(5, 0))
    /\ args' = [kind |-> "Shape", r |-> D(5, 0)]
    /\ pc' = "L50"
    /\ UNCHANGED <<mode, stdout, exit, car, rectangle, cell, calls, ret>>

\* shape.cpp main, line 50: Rectangle rectangle(10.0, 2.0);
ShapeMain_L50 ==
    /\ mode = "shape_main" /\ pc = "L50"
    /\ rectangle' = Rectangle(D(10, 0), D(2, 0))
    /\ args' = [kind |-> "Shape", r |-> args.r, w |-> D(10, 0), h |-> D(2, 0)]
    /\ pc' = "L55"
    /\ UNCHANGED <<mode, stdout, exit, car, circle, cell, calls, ret>>

\* Line 55 passing the rectangle instead of the circle.
ShapeMain_L55_rectangle ==
    /\ mode = "shape_main" /\ pc = "L55"
    /\ printArea(rectangle)
    /\ calls' = Append(calls, "printArea(circle)")
    /\ pc' = "L56"
    /\ UNCHANGED <<mode, exit, args, car, circle, rectangle, cell, ret>>

\* shape.cpp main, line 55: printArea(circle);
ShapeMain_L55 ==
    /\ mode = "shape_main" /\ pc = "L55"
    /\ printArea(circle)
    /\ calls' = Append(calls, "printArea(circle)")
    /\ pc' = "L56"
    /\ UNCHANGED <<mode, exit, args, car, circle, rectangle, cell, ret>>

\* shape.cpp main, line 56: printArea(rectangle);
ShapeMain_L56 ==
    /\ mode = "shape_main" /\ pc = "L56"
    /\ printArea(rectangle)
    /\ calls' = Append(calls, "printArea(rectangle)")
    /\ pc' = "L58"
    /\ UNCHANGED <<mode, exit, args, car, circle, rectangle, cell, ret>>

\* shape.cpp main, line 58: return 0;
ShapeMain_L58 ==
    /\ mode = "shape_main" /\ pc = "L58"
    /\ exit' = <<0>>
    /\ pc' = "done"
    /\ UNCHANGED <<mode, stdout, args, car, circle, rectangle, cell, calls, ret>>

\* A client constructs a Circle and a Rectangle from arbitrary arguments.
ShapeClient_New ==
    /\ mode = "shape_any" /\ pc = "start"
    /\ \E r \in Radii, w \in Sides, h \in Sides :
          /\ circle' = Circle(r)
          /\ rectangle' = Rectangle(w, h)
          /\ args' = [kind |-> "Shape", r |-> r, w |-> w, h |-> h]
    /\ pc' = "live"
    /\ UNCHANGED <<mode, stdout, exit, car, cell, calls, ret>>

\* A client calls area() on one of its shapes.
ShapeClient_area ==
    /\ mode = "shape_any" /\ pc = "live" /\ Len(calls) < MaxCalls
    /\ \E name \in {"circle", "rectangle"} :
          /\ ret' = <<area(Obj(name))>>
          /\ calls' = Append(calls, "area(" \o name \o ")")
    /\ UNCHANGED <<mode, pc, stdout, exit, args, car, circle, rectangle, cell>>

\* A client passes one of its shapes to printArea.
ShapeClient_printArea ==
    /\ mode = "shape_any" /\ pc = "live" /\ Len(calls) < MaxCalls
    /\ \E name \in {"circle", "rectangle"} :
          /\ printArea(Obj(name))
          /\ calls' = Append(calls, "printArea(" \o name \o ")")
    /\ UNCHANGED <<mode, pc, exit, args, car, circle, rectangle, cell, ret>>

----------------------------------------------------------------------------
\* cell.cpp

\* Cell::Cell(std::string dna) : dna(dna) { proteins = {"Hemoglobin", "Insulin"}; }
Cell(dna) == [kind |-> "Cell", dna |-> dna, proteins |-> <<Hemoglobin, Insulin>>]

\* void Cell::mitosis(): streams the text, no std::endl.
mitosis(self) ==
    /\ stdout' = stdout \o S_Mitosis
    /\ cell' = self
    /\ ret' = ret

\* apoptosis that releases the proteins of the dying cell.
apoptosis_clearing(self) ==
    /\ stdout' = stdout
    /\ cell' = [self EXCEPT !.proteins = <<>>]
    /\ ret' = ret

\* void Cell::apoptosis(): empty body.
apoptosis(self) ==
    /\ stdout' = stdout
    /\ cell' = self
    /\ ret' = ret

\* replicate_dna returning the identifier itself.
replicate_dna_single(self) ==
    /\ ret' = <<self.dna>>
    /\ cell' = self
    /\ stdout' = stdout

\* replicate_dna storing the doubled identifier back (dna += dna).
replicate_dna_cumulative(self) ==
    /\ ret' = <<self.dna \o self.dna>>
    /\ cell' = [self EXCEPT !.dna = self.dna \o self.dna]
    /\ stdout' = stdout

\* std::string Cell::replicate_dna(): return dna + dna;
replicate_dna(self) ==
    /\ ret' = <<self.dna \o self.dna>>
    /\ cell' = self
    /\ stdout' = stdout

\* Arguments the cell client passes to the constructor.
Dnas == {ATCG, EmptyStr, <<"G">>, <<"G", "A", "T">>}

\* cell.cpp main, line 25: Cell cell("ATCG");
CellMain_L25 ==
    /\ mode = "cell_main" /\ pc = "start"
    /\ cell' = Cell(ATCG)
    /\ args' = [kind |-> "Cell", dna |-> ATCG]
    /\ pc' = "L26"
    /\ UNCHANGED <<mode, stdout, exit, car, circle, rectangle, calls, ret>>

\* cell.cpp main, line 26: cell.mitosis();
CellMain_L26 ==
    /\ mode = "cell_main" /\ pc = "L26"
    /\ mitosis(cell)
    /\ calls' = Append(calls, "mitosis")
    /\ pc' = "L27"
    /\ UNCHANGED <<mode, exit, args, car, circle, rectangle>>

\* cell.cpp main, line 27: return 0;
CellMain_L27 ==
    /\ mode = "cell_main" /\ pc = "L27"
    /\ exit' = <<0>>
    /\ pc' = "done"
    /\ UNCHANGED <<mode, stdout, args, car, circle, rectangle, cell, calls, ret>>

\* A client constructs a Cell from an arbitrary identifier.
CellClient_New ==
    /\ mode = "cell_any" /\ pc = "start"
    /\ \E d \in Dnas :
          /\ cell' = Cell(d)
          /\ args' = [kind |-> "Cell", dna |-> d]
    /\ pc' = "live"
    /\ UNCHANGED <<mode, stdout, exit, car, circle, rectangle, calls, ret>>

\* A client calls mitosis on its Cell.
CellClient_mitosis ==
    /\ mode = "cell_any" /\ pc = "live" /\ Len(calls) < MaxCalls
    /\ mitosis(cell)
    /\ calls' = Append(calls, "mitosis")
    /\ UNCHANGED <<mode, pc, exit, args, car, circle, rectangle>>

\* A client calls apoptosis on its Cell.
CellClient_apoptosis ==
    /\ mode = "cell_any" /\ pc = "live" /\ Len(calls) < MaxCalls
    /\ apoptosis(cell)
    /\ calls' = Append(calls, "apoptosis")
    /\ UNCHANGED <<mode, pc, exit, args, car, circle, rectangle>>

\* A client calls replicate_dna on its Cell.
CellClient_replicate_dna ==
    /\ mode = "cell_any" /\ pc = "live" /\ Len(calls) < MaxCalls
    /\ replicate_dna(cell)
    /\ calls' = Append(calls, "replicate_dna")
    /\ UNCHANGED <<mode, pc, exit, args, car, circle, rectangle>>

----------------------------------------------------------------------------

Init ==
    /\ mode \in Modes
    /\ pc = "start"
    /\ stdout = <<>>
    /\ exit = <<>>
    /\ args = None
    /\ car = None
    /\ circle = None
    /\ rectangle = None
    /\ cell = None
    /\ calls = <<>>
    /\ ret = <<>>

Next ==
    \/ CarMain_L25 \/ CarMain_L26 \/ CarMain_L27
    \/ CarClient_New \/ CarClient_displayInfo
    \/ ShapeMain_L49 \/ ShapeMain_L50 \/ ShapeMain_L55 \/ ShapeMain_L56 \/ ShapeMain_L58
    \/ ShapeClient_New \/ ShapeClient_area \/ ShapeClient_printArea
    \/ CellMain_L25 \/ CellMain_L26 \/ CellMain_L27
    \/ CellClient_New \/ CellClient_mitosis \/ CellClient_apoptosis \/ CellClient_replicate_dna

Spec == Init /\ [][Next]_vars

----------------------------------------------------------------------------
\* Properties.

CarModes == {"car_main", "car_any"}
ShapeModes == {"shape_main", "shape_any"}
CellModes == {"cell_main", "cell_any"}

LastCall == calls[Len(calls)]

Suffix(s, n) == SubSeq(s, Len(s) - n + 1, Len(s))

RECURSIVE Repeat(_, _)
Repeat(s, n) == IF n = 0 THEN <<>> ELSE s \o Repeat(s, n - 1)

Count(seq, x) == Cardinality({i \in DOMAIN seq : seq[i] = x})

\* Equality of the values of two doubles.
DEq(a, b) ==
    IF a.e >= b.e THEN a.m = b.m * Pow10(a.e - b.e)
    ELSE b.m = a.m * Pow10(b.e - a.e)

\* The integer a decimal numeral denotes.
DigitValue(c) == CHOOSE d \in 0..9 : Digit(d) = c

RECURSIVE NumeralValue(_)
NumeralValue(str) ==
    IF str = <<>> THEN 0
    ELSE 10 * NumeralValue(SubSeq(str, 1, Len(str) - 1)) + DigitValue(str[Len(str)])

DecimalValue(str) ==
    IF str[1] = "-" THEN -NumeralValue(SubSeq(str, 2, Len(str))) ELSE NumeralValue(str)

ToyotaLine == <<"M", "a", "k", "e", ":", " ", "T", "o", "y", "o", "t", "a", ",", " ", "M", "o", "d", "e", "l", ":", " ", "C", "o", "r", "o", "l", "l", "a", ",", " ", "Y", "e", "a", "r", ":", " ", "2", "0", "2", "0", "\n">>
CircleLine == <<"A", "r", "e", "a", ":", " ", "7", "8", ".", "5", "3", "9", "8", "\n">>
RectLine == <<"A", "r", "e", "a", ":", " ", "2", "0", "\n">>
ATCGATCG == <<"A", "T", "C", "G", "A", "T", "C", "G">>

\* The line displayInfo must write for the constructor arguments in args.
CarExpectedLine ==
    S_Make \o args.make \o S_Model \o args.model \o S_Year \o IntToStr(args.year) \o endl

\* C1: for every Car constructed with (make, model, year), displayInfo
\* writes exactly "Make: <make>, Model: <model>, Year: <year>" (and the line
\* terminator), the arguments in that order and unchanged, the year as the
\* decimal numeral of its value; Car("Toyota", "Corolla", 2020) prints
\* exactly "Make: Toyota, Model: Corolla, Year: 2020".
C1_DisplayInfoText ==
    (mode \in CarModes /\ calls # <<>>) =>
        /\ Len(stdout) >= Len(CarExpectedLine)
        /\ Suffix(stdout, Len(CarExpectedLine)) = CarExpectedLine
        /\ Len(stdout) = Len(calls) * Len(CarExpectedLine)
        /\ DecimalValue(IntToStr(args.year)) = args.year
        /\ (args.make = Toyota /\ args.model = Corolla /\ args.year = 2020
              => Suffix(stdout, Len(ToyotaLine)) = ToyotaLine)

C1_Witness ==
    mode = "car_main" /\ pc = "done" /\ calls = <<"displayInfo">> /\ stdout = ToyotaLine

\* C2: for every Cell constructed with dna, replicate_dna returns a string
\* of twice the length whose first and second halves both equal dna;
\* Cell("ATCG").replicate_dna() returns "ATCGATCG".
C2_ReplicateDoubles ==
    (mode \in CellModes /\ calls # <<>> /\ LastCall = "replicate_dna") =>
        LET r == ret[1]
            d == args.dna
        IN  /\ Len(r) = 2 * Len(d)
            /\ SubSeq(r, 1, Len(d)) = d
            /\ SubSeq(r, Len(d) + 1, 2 * Len(d)) = d
            /\ (d = ATCG => r = ATCGATCG)

C2_Witness ==
    mode = "cell_any" /\ calls # <<>> /\ LastCall = "replicate_dna" /\ args.dna = ATCG
        /\ ret = <<ATCGATCG>>

\* What printArea must write for a call, by the variant of its argument.
ShapeExpectedOut(c) ==
    IF c = "printArea(circle)"
    THEN S_Area \o DoubleToStr(D(M_PI.m * args.r.m * args.r.m, M_PI.e + 2 * args.r.e)) \o endl
    ELSE IF c = "printArea(rectangle)"
    THEN S_Area \o DoubleToStr(D(args.w.m * args.h.m, args.w.e + args.h.e)) \o endl
    ELSE <<>>

RECURSIVE ShapeExpectedStdout(_)
ShapeExpectedStdout(cs) ==
    IF cs = <<>> THEN <<>>
    ELSE ShapeExpectedStdout(SubSeq(cs, 1, Len(cs) - 1)) \o ShapeExpectedOut(cs[Len(cs)])

\* C3: printArea, given its argument as a Shape reference, prints for a
\* Circle the value of the circle formula and for a Rectangle the value of
\* the rectangle formula: standard output is, call by call, the area line of
\* the formula of the argument's concrete variant.
C3_PrintAreaDispatch ==
    (mode \in ShapeModes /\ calls # <<>>) => stdout = ShapeExpectedStdout(calls)

C3_Witness ==
    /\ mode = "shape_any"
    /\ Count(calls, "printArea(circle)") > 0
    /\ Count(calls, "printArea(rectangle)") > 0
    /\ ShapeExpectedOut("printArea(circle)") # ShapeExpectedOut("printArea(rectangle)")
    /\ args.w # args.h

\* C4: for every Rectangle constructed with (width, height), area returns
\* width multiplied by height; Rectangle(10.0, 2.0).area() yields 20.0.
C4_RectangleArea ==
    (mode \in ShapeModes /\ calls # <<>> /\ LastCall = "area(rectangle)") =>
        /\ DEq(ret[1], D(args.w.m * args.h.m, args.w.e + args.h.e))
        /\ (DEq(args.w, D(10, 0)) /\ DEq(args.h, D(2, 0)) => DEq(ret[1], D(20, 0)))

C4_Witness ==
    /\ mode = "shape_any" /\ calls # <<>> /\ LastCall = "area(rectangle)"
    /\ args.w = D(10, 0) /\ args.h = D(2, 0) /\ DEq(ret[1], D(20, 0))

\* C5: for every Circle constructed with radius r, area returns pi * r * r;
\* Circle(5.0).area() yields pi * 25, which printArea prints as
\* "Area: 78.5398".
C5_CircleArea ==
    /\ (mode \in ShapeModes /\ calls # <<>> /\ LastCall = "area(circle)") =>
          /\ DEq(ret[1], D(M_PI.m * args.r.m * args.r.m, M_PI.e + 2 * args.r.e))
          /\ (DEq(args.r, D(5, 0)) => DEq(ret[1], D(M_PI.m * 25, M_PI.e)))
    /\ (mode \in ShapeModes /\ calls # <<>> /\ LastCall = "printArea(circle)"
            /\ DEq(args.r, D(5, 0))) =>
          /\ Len(stdout) >= Len(CircleLine)
          /\ Suffix(stdout, Len(CircleLine)) = CircleLine

C5_Witness ==
    /\ mode = "shape_any"
    /\ calls = <<"area(circle)", "printArea(circle)">>
    /\ args.r = D(5, 0)
    /\ DEq(ret[1], D(785398175, 7))
    /\ stdout = CircleLine

PrintingCalls == {"displayInfo", "printArea(circle)", "printArea(rectangle)", "mitosis"}

NumPrintingCalls == Cardinality({i \in DOMAIN calls : calls[i] \in PrintingCalls})

\* C6: every invocation of a printing operation (Car::displayInfo,
\* printArea, Cell::mitosis) writes exactly one complete line, its text
\* followed by a line terminator: after such a call standard output ends
\* with the terminator and holds as many terminators as printing calls.
C6_OneLinePerCall ==
    (calls # <<>> /\ LastCall \in PrintingCalls) =>
        /\ stdout # <<>>
        /\ stdout[Len(stdout)] = "\n"
        /\ Count(stdout, "\n") = NumPrintingCalls

\* C7: displayInfo is read-only: after any number of calls the Car's make,
\* model and year equal the constructor arguments, and every call has
\* printed the same text.
C7_DisplayInfoReadOnly ==
    (mode \in CarModes /\ car # None) =>
        /\ car.make = args.make
        /\ car.model = args.model
        /\ car.year = args.year
        /\ (calls # <<>> =>
              stdout = Repeat(SubSeq(stdout, 1, Len(stdout) \div Len(calls)), Len(calls)))

C7_Witness ==
    mode = "car_any" /\ Len(calls) >= 3 /\ args.year = 1999 /\ car.year = 1999

\* C8: apoptosis has no observable effect: the call writes nothing and
\* leaves dna and proteins (and the last result) unchanged, so standard
\* output consists of the text of the mitosis calls alone, whether or not
\* apoptosis was called in between.
C8_ApoptosisNoEffect ==
    /\ [][calls' = Append(calls, "apoptosis")
            => (stdout' = stdout /\ cell' = cell /\ ret' = ret)]_vars
    /\ [](mode \in CellModes => stdout = Repeat(S_Mitosis, Count(calls, "mitosis")))

C8_Witness ==
    /\ mode = "cell_any" /\ Len(calls) >= 3
    /\ calls[1] = "apoptosis" /\ calls[2] = "mitosis" /\ calls[3] = "replicate_dna"
    /\ stdout = S_Mitosis /\ ret = <<args.dna \o args.dna>>

\* C9: the shape program's main writes the area line of the circle of radius
\* 5.0 first, the area line of the 10.0 by 2.0 rectangle second and nothing
\* else, and only then returns exit status 0.
C9_ShapeMainOrder ==
    mode = "shape_main" =>
        /\ pc \in {"start", "L50", "L55"} => stdout = <<>>
        /\ pc = "L56" => stdout = CircleLine
        /\ pc \in {"L58", "done"} => stdout = CircleLine \o RectLine
        /\ pc # "done" => exit = <<>>
        /\ pc = "done" => exit = <<0>>

C9_Witness ==
    mode = "shape_main" /\ pc = "done" /\ exit = <<0>> /\ stdout = CircleLine \o RectLine

\* C10: after construction with dna d and any sequence of mitosis, apoptosis
\* and replicate_dna calls, the stored dna is d and proteins is
\* ["Hemoglobin", "Insulin"]; replicate_dna is not cumulative, every call
\* returns d + d.
C10_CellInvariant ==
    (mode \in CellModes /\ cell # None) =>
        /\ cell.dna = args.dna
        /\ cell.proteins = <<Hemoglobin, Insulin>>
        /\ Len(cell.proteins) = 2
        /\ (ret # <<>> => ret[1] = args.dna \o args.dna)

C10_Witness ==
    /\ mode = "cell_any"
    /\ Count(calls, "replicate_dna") >= 2
    /\ Count(calls, "mitosis") >= 1
    /\ Count(calls, "apoptosis") >= 1
    /\ LastCall = "replicate_dna"
    /\ args.dna # <<>>

====
